---- MODULE Spec2Model ----
(***************************************************************************)
(* The response service of the Jarvis backend                              *)
(* (backend/services/ai_service.py) and the route GET /api/ai/test         *)
(* (backend/api/main.py): the personality configuration loader, the        *)
(* construction of the service with its startup liveness check, and the    *)
(* public operations is_available, generate_response and get_status, each  *)
(* step of which is one call to the external model runtime.                *)
(*                                                                         *)
(* A text is the sequence of its characters, so that the echo template and *)
(* the system prompt are built by concatenation, as the f-strings do.      *)
(* A dict is a record; a key that is absent is a field that is absent, and *)
(* Get is dict.get.  The configurations considered are the nested mappings *)
(* of the data model: every section that is present is itself a mapping.   *)
(***************************************************************************)
EXTENDS Naturals, Sequences, FiniteSets

VARIABLES
    files,      \* the three candidate configuration files, as found on disk
    runtime,    \* what the external model runtime does when it is called
    phase,      \* "unconstructed", "running", or "crashed" (__init__ raised)
    startup,    \* what the startup liveness check met ("none" before it)
    opened,     \* the candidate files the loader opened, in order
    client,     \* self.client: TRUE for a client handle, FALSE for None
    model,      \* self.model
    ollama_url, \* self.ollama_url
    personality_config, \* self.personality_config
    reqs,       \* the requests in flight, one record per request slot
    last        \* the request that finished last, with what its caller got

vars == <<files, runtime, phase, startup, opened, client, model, ollama_url,
          personality_config, reqs, last>>

\* The number of request slots: requests served concurrently.
MaxReqs == 2

\* the text "Jarvis"
NameJarvis == <<"J", "a", "r", "v", "i", "s">>
\* the text "J.A.R.V.I.S."
DisplayJarvis == <<"J", ".", "A", ".", "R", ".", "V", ".", "I", ".", "S",
    ".">>
\* the text "AI Assistant" (identity.role of the default)
RoleAssistant == <<"A", "I", " ", "A", "s", "s", "i", "s", "t", "a", "n",
    "t">>
\* base_personality of the built-in default configuration
BaseJarvis == <<"Y", "o", "u", " ", "a", "r", "e", " ", "J", "a", "r", "v",
    "i", "s", ",", " ", "a", "n", " ", "A", "I", " ", "a", "s", "s", "i",
    "s", "t", "a", "n", "t", " ", "i", "n", "s", "p", "i", "r", "e", "d",
    " ", "b", "y", " ", "T", "o", "n", "y", " ", "S", "t", "a", "r", "k",
    "'", "s", " ", "A", "I", ".", " ", "B", "e", " ", "h", "e", "l", "p",
    "f", "u", "l", ",", " ", "i", "n", "t", "e", "l", "l", "i", "g", "e",
    "n", "t", ",", " ", "a", "n", "d", " ", "s", "l", "i", "g", "h", "t",
    "l", "y", " ", "w", "i", "t", "t", "y", ".">>
\* the prompt's default sentence when base_personality is absent
BaseFallback == <<"Y", "o", "u", " ", "a", "r", "e", " ", "J", "a", "r",
    "v", "i", "s", ",", " ", "a", "n", " ", "A", "I", " ", "a", "s", "s",
    "i", "s", "t", "a", "n", "t", ".", " ", "B", "e", " ", "h", "e", "l",
    "p", "f", "u", "l", " ", "a", "n", "d", " ", "i", "n", "t", "e", "l",
    "l", "i", "g", "e", "n", "t", ".">>
\* f" Your tone should be {tone}."
TonePrefix == <<" ", "Y", "o", "u", "r", " ", "t", "o", "n", "e", " ", "s",
    "h", "o", "u", "l", "d", " ", "b", "e", " ">>
\* f" Use {humor_level}."
HumorPrefix == <<" ", "U", "s", "e", " ">>
\* f" Be {confidence}."
ConfidencePrefix == <<" ", "B", "e", " ">>
\* f" Keep responses {response_style}."
StylePrefix == <<" ", "K", "e", "e", "p", " ", "r", "e", "s", "p", "o",
    "n", "s", "e", "s", " ">>
\* f" Approach problems in an {problem_solving} way."
SolvingPrefix == <<" ", "A", "p", "p", "r", "o", "a", "c", "h", " ", "p",
    "r", "o", "b", "l", "e", "m", "s", " ", "i", "n", " ", "a", "n", " ">>
\* the end of the problem_solving clause
SolvingSuffix == <<" ", "w", "a", "y", ".">>
\* f" When explaining complex topics, {explanation_method}."
ExplainPrefix == <<" ", "W", "h", "e", "n", " ", "e", "x", "p", "l", "a",
    "i", "n", "i", "n", "g", " ", "c", "o", "m", "p", "l", "e", "x", " ",
    "t", "o", "p", "i", "c", "s", ",", " ">>
\* the full stop that closes a clause
Period == <<".">>
\* the head of the echo template f"Echo from {name}: {message}"
EchoFrom == <<"E", "c", "h", "o", " ", "f", "r", "o", "m", " ">>
\* the separator of the echo template
ColonSpace == <<":", " ">>
\* the default name of the ai-mode result
NameAI == <<"A", "I">>
\* the default name of the echo-mode result
NameAssistant == <<"A", "s", "s", "i", "s", "t", "a", "n", "t">>
\* the default name of the status result
NameUnknown == <<"U", "n", "k", "n", "o", "w", "n">>
\* the default display_name of the status result
DisplayFallback == <<"A", "I", " ", "A", "s", "s", "i", "s", "t", "a", "n",
    "t">>
\* the canned probe string of GET /api/ai/test
TestProbe == <<"H", "e", "l", "l", "o", ",", " ", "a", "r", "e", " ", "y",
    "o", "u", " ", "w", "o", "r", "k", "i", "n", "g", "?">>
\* the message of GET /api/ai/test when the service is unavailable
TestMessage == <<"A", "I", " ", "s", "e", "r", "v", "i", "c", "e", " ",
    "n", "o", "t", " ", "a", "v", "a", "i", "l", "a", "b", "l", "e", " ",
    "-", " ", "u", "s", "i", "n", "g", " ", "f", "a", "l", "l", "b", "a",
    "c", "k", " ", "m", "o", "d", "e">>

\* model: str = "llama3.1:8b"
DefaultModel == "llama3.1:8b"
\* ollama_url: str = "http://localhost:11434"
DefaultUrl == "http://localhost:11434"

\* dict.get(key, default)
Get(d, key, default) == IF key \in DOMAIN d THEN d[key] ELSE default

\* The truth value Python gives a text or a missing value: non-empty.
Truthy(t) == t # <<>>

\* A dict with no key, the default of config.get("identity", {}).
EmptyDict == [x \in {} |-> <<>>]

(***************************************************************************)
(* The personality configuration loader.                                   *)
(***************************************************************************)

\* The candidate paths, in the order the loader tries them:
\* 1 "../../jarvis_personality.json", 2 "../jarvis_personality.json",
\* 3 "jarvis_personality.json".
Candidates == <<"../../jarvis_personality.json", "../jarvis_personality.json",
                "jarvis_personality.json">>

GetDefaultPersonality ==
    [identity |-> [name |-> NameJarvis, display_name |-> DisplayJarvis,
                   role |-> RoleAssistant],
     personality |-> [base_personality |-> BaseJarvis]]

Friday == <<"F", "r", "i", "d", "a", "y">>

\* A configuration file with every recognised section.
CfgFriday ==
    [identity |-> [name |-> Friday, display_name |-> <<"F", "R", "I">>],
     personality |-> [base_personality |-> <<"B", "e", " ", "F", ".">>,
                      tone |-> <<"d", "r", "y">>,
                      humor_level |-> <<"w", "i", "t">>,
                      confidence |-> <<"b", "o", "l", "d">>],
     behavior |-> [response_style |-> <<"s", "h", "o", "r", "t">>,
                   problem_solving |-> <<"e", "x", "a", "c", "t">>],
     interaction_style |-> [explanation_method |-> <<"s", "h", "o", "w">>]]

\* A configuration file with base_personality alone: no identity section.
CfgBare == [personality |-> [base_personality |-> <<"B", "e", ".">>]]

\* A configuration file whose identity has no name and whose tone is empty.
CfgNoName ==
    [identity |-> [role |-> <<"b", "o", "t">>],
     personality |-> [tone |-> <<>>, confidence |-> <<"b", "o", "l", "d">>]]

\* The texts of the files that are JSON, each named for what it holds.
JsonTexts == {"friday.json", "bare.json", "noname.json"}

\* json.load on a text that is JSON: the mapping it denotes.
Parsed(text) ==
    CASE text = "friday.json" -> CfgFriday
      [] text = "bare.json" -> CfgBare
      [] text = "noname.json" -> CfgNoName

\* os.path.exists(path)
Exists(fs, i) == fs[i].state # "absent"

\* open(path) and json.load(f): the parsed contents, or an exception when
\* the content is no JSON.
JsonLoad(fs, i) ==
    IF fs[i].state = "valid" THEN [exc |-> FALSE, val |-> Parsed(fs[i].json)]
    ELSE [exc |-> TRUE]

\* LoadFrom as it would be if a file that does not parse were skipped: the
\* next candidate is read when it exists and parses.
MutLoadFrom(fs, i) ==
    LET r == JsonLoad(fs, i)
    IN  IF ~r.exc
        THEN [config |-> r.val, opened |-> <<i>>, raised |-> FALSE]
        ELSE IF i < 3 /\ Exists(fs, i + 1) /\ ~JsonLoad(fs, i + 1).exc
        THEN [config |-> JsonLoad(fs, i + 1).val, opened |-> <<i, i + 1>>,
              raised |-> FALSE]
        ELSE [config |-> GetDefaultPersonality, opened |-> <<i>>,
              raised |-> FALSE]

\* The body of the try block once the branch of candidate i is taken: the
\* file is opened and parsed; an exception leaves through the except
\* clause, which returns the default.
LoadFrom(fs, i) ==
    LET r == JsonLoad(fs, i)
    IN  IF r.exc
        THEN [config |-> GetDefaultPersonality, opened |-> <<i>>,
              raised |-> FALSE]
        ELSE [config |-> r.val, opened |-> <<i>>, raised |-> FALSE]

\* LoadPersonalityConfig as it would be if the current directory were
\* tried first.
MutLoadPersonalityConfig(fs) ==
    IF Exists(fs, 3) THEN LoadFrom(fs, 3)
    ELSE IF Exists(fs, 2) THEN LoadFrom(fs, 2)
    ELSE IF Exists(fs, 1) THEN LoadFrom(fs, 1)
    ELSE [config |-> GetDefaultPersonality, opened |-> <<>>,
          raised |-> FALSE]

\* _load_personality_config: the if / elif / elif / else chain.
LoadPersonalityConfig(fs) ==
    IF Exists(fs, 1) THEN LoadFrom(fs, 1)
    ELSE IF Exists(fs, 2) THEN LoadFrom(fs, 2)
    ELSE IF Exists(fs, 3) THEN LoadFrom(fs, 3)
    ELSE [config |-> GetDefaultPersonality, opened |-> <<>>,
          raised |-> FALSE]

(***************************************************************************)
(* System prompt assembly.                                                 *)
(***************************************************************************)

\* Clause as it would be if the test were "key in section": an empty field
\* adds an empty clause.
MutClause(section, key, prefix, suffix) ==
    IF key \in DOMAIN section
    THEN prefix \o section[key] \o suffix
    ELSE <<>>

\* if section.get(key): system_prompt += prefix + section[key] + suffix
Clause(section, key, prefix, suffix) ==
    IF Truthy(Get(section, key, <<>>))
    THEN prefix \o section[key] \o suffix
    ELSE <<>>

\* _get_system_prompt
GetSystemPrompt(config) ==
    LET personality == Get(config, "personality", EmptyDict)
        behavior    == Get(config, "behavior", EmptyDict)
        interaction == Get(config, "interaction_style", EmptyDict)
    IN  Get(personality, "base_personality", BaseFallback)
        \o Clause(personality, "tone", TonePrefix, Period)
        \o Clause(personality, "humor_level", HumorPrefix, Period)
        \o Clause(personality, "confidence", ConfidencePrefix, Period)
        \o Clause(behavior, "response_style", StylePrefix, Period)
        \o Clause(behavior, "problem_solving", SolvingPrefix, SolvingSuffix)
        \o Clause(interaction, "explanation_method", ExplainPrefix, Period)

(***************************************************************************)
(* Construction and the startup liveness check.                            *)
(***************************************************************************)

\* What httpx.get(f"{self.ollama_url}/api/tags", timeout=5) can meet.
StartupOutcomes == {"200", "503", "refused", "timeout", "malformed"}

\* httpx.get: a response with a status code, or an exception.
HttpGetTags(outcome) ==
    CASE outcome = "200" -> [exc |-> FALSE, status_code |-> 200]
      [] outcome = "503" -> [exc |-> FALSE, status_code |-> 503]
      [] OTHER -> [exc |-> TRUE]

\* InitializeClient as it would be without the test of the status code: a
\* handle for every response.
MutInitializeClient(outcome) ==
    LET response == HttpGetTags(outcome)
    IN  IF response.exc
        THEN [client |-> FALSE, raised |-> FALSE]
        ELSE [client |-> TRUE, raised |-> FALSE]

\* _initialize_client, entered with self.client = None: the handle after it,
\* and whether an exception left it.
InitializeClient(outcome) ==
    LET response == HttpGetTags(outcome)
    IN  IF response.exc
        THEN [client |-> FALSE, raised |-> FALSE]
        ELSE IF response.status_code = 200
             THEN [client |-> TRUE, raised |-> FALSE]
             ELSE [client |-> FALSE, raised |-> FALSE]

(***************************************************************************)
(* The external model runtime, as seen through the ollama client.          *)
(***************************************************************************)

\* "up": answers every call; "empty": answers a chat with empty content;
\* "malformed": answers, but the chat reply has no message and the listed
\* models have no name; "down": every call raises.
RuntimeStates == {"up", "empty", "malformed", "down"}

\* The text the runtime generates when it is up.
Reply == <<"H", "i", "!">>

\* self.client.list()
ClientList(rt) ==
    CASE rt = "down" -> [exc |-> TRUE]
      [] rt = "malformed" ->
            [exc |-> FALSE,
             val |-> [models |-> <<[model |-> "llama3.1:8b"]>>]]
      [] OTHER ->
            [exc |-> FALSE,
             val |-> [models |-> <<[name |-> "llama3.1:8b"],
                                   [name |-> "mistral:7b"]>>]]

\* self.client.chat(model=..., messages=[...])
ClientChat(rt, mdl, messages) ==
    CASE rt = "down" -> [exc |-> TRUE]
      [] rt = "malformed" -> [exc |-> FALSE, val |-> [error |-> "bad"]]
      [] rt = "empty" ->
            [exc |-> FALSE,
             val |-> [message |-> [role |-> "assistant", content |-> <<>>]]]
      [] OTHER ->
            [exc |-> FALSE,
             val |-> [message |-> [role |-> "assistant", content |-> Reply]]]

\* datetime.now().isoformat(): the instant at which the result is built.
\* No operation reads a timestamp back, so one token stands for the instant.
NowIso == "datetime.now().isoformat()"

(***************************************************************************)
(* The operations of the service.  Each returns what the operation gives   *)
(* back, the runtime calls it issued, and whether an exception left it.    *)
(***************************************************************************)

\* IsAvailable as it would be if the handle stood for availability: no
\* probe is issued.
MutIsAvailable(cl, rt) ==
    [ret |-> cl, calls |-> <<>>, raised |-> FALSE]

\* is_available
IsAvailable(cl, rt) ==
    IF ~cl
    THEN [ret |-> FALSE, calls |-> <<>>, raised |-> FALSE]
    ELSE LET r == ClientList(rt)
             call == [kind |-> "list", reply |-> r]
         IN  IF r.exc
             THEN [ret |-> FALSE, calls |-> <<call>>, raised |-> FALSE]
             ELSE [ret |-> TRUE, calls |-> <<call>>, raised |-> FALSE]

\* GenerateAiResponse as it would be with one retry of a chat call that
\* raised.
MutGenerateAiResponse(config, mdl, rt, message) ==
    LET system_prompt == GetSystemPrompt(config)
        messages == <<[role |-> "system", content |-> system_prompt],
                      [role |-> "user", content |-> message]>>
        r == ClientChat(rt, mdl, messages)
        call == [kind |-> "chat", model |-> mdl, messages |-> messages,
                 reply |-> r]
    IN  IF r.exc
        THEN [isNone |-> TRUE, text |-> <<>>, calls |-> <<call, call>>,
              raised |-> FALSE]
        ELSE IF "message" \notin DOMAIN r.val
                \/ "content" \notin DOMAIN r.val.message
        THEN [isNone |-> TRUE, text |-> <<>>, calls |-> <<call>>,
              raised |-> FALSE]
        ELSE [isNone |-> FALSE, text |-> r.val.message.content,
              calls |-> <<call>>, raised |-> FALSE]

\* _generate_ai_response: the content of the reply, or None (isNone) when
\* the call or the reading of response['message']['content'] raised.
GenerateAiResponse(config, mdl, rt, message) ==
    LET system_prompt == GetSystemPrompt(config)
        messages == <<[role |-> "system", content |-> system_prompt],
                      [role |-> "user", content |-> message]>>
        r == ClientChat(rt, mdl, messages)
        call == [kind |-> "chat", model |-> mdl, messages |-> messages,
                 reply |-> r]
        none == [isNone |-> TRUE, text |-> <<>>, calls |-> <<call>>,
                 raised |-> FALSE]
    IN  IF r.exc THEN none
        ELSE IF "message" \notin DOMAIN r.val THEN none
        ELSE IF "content" \notin DOMAIN r.val.message THEN none
        ELSE [isNone |-> FALSE, text |-> r.val.message.content,
              calls |-> <<call>>, raised |-> FALSE]

\* AiResult as it would be if the model field were copied from the echo
\* result.
MutAiResult(config, mdl, text) ==
    [response |-> text, mode |-> "ai", model |-> "fallback",
     personality |-> Get(Get(config, "identity", EmptyDict), "name", NameAI),
     timestamp |-> NowIso]

\* The ai-mode result of generate_response.
AiResult(config, mdl, text) ==
    [response |-> text, mode |-> "ai", model |-> mdl,
     personality |-> Get(Get(config, "identity", EmptyDict), "name", NameAI),
     timestamp |-> NowIso]

\* EchoResult as it would be with the template "Echo: {message}", which
\* leaves the name out.
MutEchoResult(config, message) ==
    LET name == Get(Get(config, "identity", EmptyDict), "name",
                    NameAssistant)
    IN  [response |-> <<"E", "c", "h", "o", ":", " ">> \o message,
         mode |-> "echo", model |-> "fallback", personality |-> name,
         timestamp |-> NowIso]

\* The echo-mode result of generate_response.
EchoResult(config, message) ==
    LET name == Get(Get(config, "identity", EmptyDict), "name",
                    NameAssistant)
    IN  [response |-> EchoFrom \o name \o ColonSpace \o message,
         mode |-> "echo", model |-> "fallback", personality |-> name,
         timestamp |-> NowIso]

\* GenerateResponse as it would be with "if ai_response is not None": empty
\* content is returned in ai mode.
MutGenerateResponse(cl, config, mdl, rt, message) ==
    IF cl
    THEN LET ai == GenerateAiResponse(config, mdl, rt, message)
         IN  IF ~ai.raised /\ ~ai.isNone
             THEN [result |-> AiResult(config, mdl, ai.text),
                   calls |-> ai.calls, raised |-> FALSE]
             ELSE [result |-> EchoResult(config, message),
                   calls |-> ai.calls, raised |-> FALSE]
    ELSE [result |-> EchoResult(config, message), calls |-> <<>>,
          raised |-> FALSE]

\* generate_response
GenerateResponse(cl, config, mdl, rt, message) ==
    IF cl
    THEN LET ai == GenerateAiResponse(config, mdl, rt, message)
         IN  IF ~ai.raised /\ ~ai.isNone /\ Truthy(ai.text)
             THEN [result |-> AiResult(config, mdl, ai.text),
                   calls |-> ai.calls, raised |-> FALSE]
             ELSE [result |-> EchoResult(config, message),
                   calls |-> ai.calls, raised |-> FALSE]
    ELSE [result |-> EchoResult(config, message), calls |-> <<>>,
          raised |-> FALSE]

\* StatusDict as it would be if the model field were always self.model.
MutStatusDictModel(is_available, config, mdl, url) ==
    [ai_available |-> is_available,
     model |-> mdl,
     mode |-> IF is_available THEN "ai" ELSE "echo",
     ollama_url |-> url,
     personality |->
        [name |-> Get(Get(config, "identity", EmptyDict), "name",
                      NameUnknown),
         display_name |-> Get(Get(config, "identity", EmptyDict),
                              "display_name", DisplayFallback),
         config_loaded |-> TRUE]]

\* StatusDict as it would be if the mode were not taken from the probe.
MutStatusDict(is_available, config, mdl, url) ==
    [ai_available |-> is_available,
     model |-> IF is_available THEN mdl ELSE "unavailable",
     mode |-> "ai",
     ollama_url |-> url,
     personality |->
        [name |-> Get(Get(config, "identity", EmptyDict), "name",
                      NameUnknown),
         display_name |-> Get(Get(config, "identity", EmptyDict),
                              "display_name", DisplayFallback),
         config_loaded |-> TRUE]]

\* The status dict get_status builds from the outcome of is_available.
StatusDict(is_available, config, mdl, url) ==
    [ai_available |-> is_available,
     model |-> IF is_available THEN mdl ELSE "unavailable",
     mode |-> IF is_available THEN "ai" ELSE "echo",
     ollama_url |-> url,
     personality |->
        [name |-> Get(Get(config, "identity", EmptyDict), "name",
                      NameUnknown),
         display_name |-> Get(Get(config, "identity", EmptyDict),
                              "display_name", DisplayFallback),
         config_loaded |-> TRUE]]

\* [model['name'] for model in models.get('models', [])]
ModelNames(listing) ==
    LET models == Get(listing, "models", <<>>)
    IN  IF \E k \in 1..Len(models) : "name" \notin DOMAIN models[k]
        THEN [exc |-> TRUE]
        ELSE [exc |-> FALSE,
              val |-> [k \in 1..Len(models) |-> models[k].name]]

\* status["available_models"] = names
WithModels(status, names) ==
    [ai_available |-> status.ai_available, model |-> status.model,
     mode |-> status.mode, ollama_url |-> status.ollama_url,
     personality |-> status.personality, available_models |-> names]

\* Enumerate as it would be without the try / except around the listing: a
\* failure leaves get_status as an exception.
MutEnumerateRaises(status, rt) ==
    LET r == ClientList(rt)
        call == [kind |-> "list", reply |-> r]
        names == IF r.exc THEN [exc |-> TRUE] ELSE ModelNames(r.val)
    IN  IF names.exc
        THEN [result |-> status, calls |-> <<call>>, raised |-> TRUE]
        ELSE [result |-> WithModels(status, names.val), calls |-> <<call>>,
              raised |-> FALSE]

\* Enumerate as it would be if a failed listing set an empty
\* available_models.
MutEnumerateEmpty(status, rt) ==
    LET r == ClientList(rt)
        call == [kind |-> "list", reply |-> r]
        names == IF r.exc THEN [exc |-> TRUE] ELSE ModelNames(r.val)
    IN  IF names.exc
        THEN [result |-> WithModels(status, <<>>), calls |-> <<call>>,
              raised |-> FALSE]
        ELSE [result |-> WithModels(status, names.val), calls |-> <<call>>,
              raised |-> FALSE]

\* The second half of get_status, entered when is_available and self.client:
\* the model enumeration inside try / except: pass.
Enumerate(status, rt) ==
    LET r == ClientList(rt)
        call == [kind |-> "list", reply |-> r]
        names == IF r.exc THEN [exc |-> TRUE] ELSE ModelNames(r.val)
    IN  IF names.exc
        THEN [result |-> status, calls |-> <<call>>, raised |-> FALSE]
        ELSE [result |-> WithModels(status, names.val), calls |-> <<call>>,
              raised |-> FALSE]

(***************************************************************************)
(* The environment: the files on disk and the requests that arrive.        *)
(***************************************************************************)

Hello == <<"H", "e", "l", "l", "o">>

\* What a candidate path can hold: nothing, a file that is no JSON, or a
\* file that parses.
FileStates ==
    {[state |-> "absent"], [state |-> "invalid"]}
    \cup {[state |-> "valid", json |-> t] : t \in JsonTexts}

Absent == [state |-> "absent"]
Invalid == [state |-> "invalid"]
Valid(t) == [state |-> "valid", json |-> t]

\* Every way the three candidate paths can be filled.
AllFiles == [1..3 -> FileStates]

\* The disks the service is run on: one for each thing the loader can
\* return (no file, a file at each of the three paths, a file that does not
\* parse in front of one that does).
ServiceFiles ==
    {<<Absent, Absent, Absent>>,
     <<Valid("friday.json"), Absent, Valid("bare.json")>>,
     <<Absent, Valid("bare.json"), Invalid>>,
     <<Absent, Absent, Valid("noname.json")>>,
     <<Invalid, Valid("friday.json"), Absent>>}

\* The texts a caller sends.
Messages == {<<>>, <<"X">>, Hello}

Slots == 1..MaxReqs

\* A request slot with no request in it.
Idle ==
    [op |-> "none", pc |-> "idle", msg |-> <<>>, invoked |-> <<>>,
     calls |-> <<>>, result |-> [pending |-> TRUE]]

\* A request suspended at its second await.
Pending(op, pc, msg, invoked, calls, result) ==
    [op |-> op, pc |-> pc, msg |-> msg, invoked |-> invoked,
     calls |-> calls, result |-> result]

\* A request that returned to its caller, or raised to it: the operation,
\* its argument, the service operations it invoked, the runtime calls it
\* issued, and what the caller got.
Finished(op, msg, invoked, calls, result, raised) ==
    [op |-> op, msg |-> msg, invoked |-> invoked, calls |-> calls,
     result |-> IF raised THEN [pending |-> TRUE] ELSE result,
     raised |-> raised]

\* The state before the module is imported: the disk and the runtime are
\* as they are, and there is no service object yet.
InitOn(disks) ==
    /\ files \in disks
    /\ runtime \in RuntimeStates
    /\ phase = "unconstructed"
    /\ startup = "none"
    /\ opened = <<>>
    /\ client = FALSE
    /\ model = "unset"
    /\ ollama_url = "unset"
    /\ personality_config = EmptyDict
    /\ reqs = [i \in Slots |-> Idle]
    /\ last = Finished("none", <<>>, <<>>, <<>>, [pending |-> TRUE], FALSE)

Init == InitOn(ServiceFiles)

\* ai_service = AIService(): __init__ with the default arguments.
Construct ==
    /\ phase = "unconstructed"
    /\ \E outcome \in StartupOutcomes :
          LET loaded == LoadPersonalityConfig(files)
              init == InitializeClient(outcome)
          IN  /\ model' = DefaultModel
              /\ ollama_url' = DefaultUrl
              /\ opened' = loaded.opened
              /\ personality_config' =
                    IF loaded.raised THEN personality_config
                    ELSE loaded.config
              /\ startup' = IF loaded.raised THEN startup ELSE outcome
              /\ client' = IF loaded.raised THEN FALSE ELSE init.client
              /\ phase' = IF loaded.raised \/ init.raised THEN "crashed"
                          ELSE "running"
    /\ UNCHANGED <<files, runtime, reqs, last>>

\* The runtime starts, stops or changes its behaviour, at any time.
RuntimeChanges ==
    /\ \E rt \in RuntimeStates \ {runtime} : runtime' = rt
    /\ UNCHANGED <<files, phase, startup, opened, client, model, ollama_url,
                   personality_config, reqs, last>>

\* CallIsAvailable as it would be if a failed probe dropped the handle
\* (self.client = None in the except clause).
MutCallIsAvailable(i) ==
    /\ phase = "running" /\ reqs[i].pc = "idle"
    /\ LET a == IsAvailable(client, runtime)
       IN  /\ last' = Finished("is_available", <<>>, <<"is_available">>,
                               a.calls, [ret |-> a.ret], a.raised)
           /\ client' = a.ret
    /\ UNCHANGED <<files, runtime, phase, startup, opened, model,
                   ollama_url, personality_config, reqs>>

\* A caller awaits ai_service.is_available().
CallIsAvailable(i) ==
    /\ phase = "running" /\ reqs[i].pc = "idle"
    /\ LET a == IsAvailable(client, runtime)
       IN  last' = Finished("is_available", <<>>, <<"is_available">>,
                            a.calls, [ret |-> a.ret], a.raised)
    /\ UNCHANGED <<files, runtime, phase, startup, opened, client, model,
                   ollama_url, personality_config, reqs>>

\* A caller awaits ai_service.generate_response(message).
CallGenerateResponse(i) ==
    /\ phase = "running" /\ reqs[i].pc = "idle"
    /\ \E message \in Messages :
          LET g == GenerateResponse(client, personality_config, model,
                                    runtime, message)
          IN  last' = Finished("generate_response", message,
                               <<"generate_response">>, g.calls, g.result,
                               g.raised)
    /\ UNCHANGED <<files, runtime, phase, startup, opened, client, model,
                   ollama_url, personality_config, reqs>>

\* A caller awaits ai_service.get_status(): the probe and the status dict;
\* the request is suspended when the models are to be enumerated.
CallGetStatus(i) ==
    /\ phase = "running" /\ reqs[i].pc = "idle"
    /\ LET a == IsAvailable(client, runtime)
           status == StatusDict(a.ret, personality_config, model, ollama_url)
       IN  IF ~a.raised /\ a.ret /\ client
           THEN /\ reqs' = [reqs EXCEPT ![i] =
                       Pending("get_status", "enumerate", <<>>,
                               <<"is_available">>, a.calls, status)]
                /\ last' = last
           ELSE /\ last' = Finished("get_status", <<>>, <<"is_available">>,
                                    a.calls, status, a.raised)
                /\ reqs' = reqs
    /\ UNCHANGED <<files, runtime, phase, startup, opened, client, model,
                   ollama_url, personality_config>>

\* get_status resumes after the probe: the model enumeration.
GetStatusEnumerate(i) ==
    /\ reqs[i].op = "get_status" /\ reqs[i].pc = "enumerate"
    /\ LET e == Enumerate(reqs[i].result, runtime)
       IN  last' = Finished("get_status", <<>>, reqs[i].invoked,
                            reqs[i].calls \o e.calls, e.result, e.raised)
    /\ reqs' = [reqs EXCEPT ![i] = Idle]
    /\ UNCHANGED <<files, runtime, phase, startup, opened, client, model,
                   ollama_url, personality_config>>

\* TestUnavailable as it would be if the reply carried no message text.
MutTestUnavailable ==
    [ai_available |-> FALSE, test_successful |-> FALSE, message |-> <<>>]

\* The reply of GET /api/ai/test when the service is not available.
TestUnavailable ==
    [ai_available |-> FALSE, test_successful |-> FALSE,
     message |-> TestMessage]

\* The reply of GET /api/ai/test around the result of generate_response.
TestAvailable(test_result) ==
    [ai_available |-> TRUE, test_successful |-> TRUE,
     test_response |-> test_result]

\* GET /api/ai/test: the availability probe, and the reply when it is false;
\* the request is suspended when generate_response is to be awaited.
CallTestAi(i) ==
    /\ phase = "running" /\ reqs[i].pc = "idle"
    /\ LET a == IsAvailable(client, runtime)
       IN  IF ~a.raised /\ a.ret
           THEN /\ reqs' = [reqs EXCEPT ![i] =
                       Pending("test_ai", "generate", TestProbe,
                               <<"is_available">>, a.calls,
                               [pending |-> TRUE])]
                /\ last' = last
           ELSE /\ last' = Finished("test_ai", <<>>, <<"is_available">>,
                                    a.calls, TestUnavailable, a.raised)
                /\ reqs' = reqs
    /\ UNCHANGED <<files, runtime, phase, startup, opened, client, model,
                   ollama_url, personality_config>>

\* GET /api/ai/test resumes after the probe: generate_response on the canned
\* probe string.
TestAiGenerate(i) ==
    /\ reqs[i].op = "test_ai" /\ reqs[i].pc = "generate"
    /\ LET g == GenerateResponse(client, personality_config, model, runtime,
                                 reqs[i].msg)
       IN  last' = Finished("test_ai", reqs[i].msg,
                            Append(reqs[i].invoked, "generate_response"),
                            reqs[i].calls \o g.calls,
                            TestAvailable(g.result), g.raised)
    /\ reqs' = [reqs EXCEPT ![i] = Idle]
    /\ UNCHANGED <<files, runtime, phase, startup, opened, client, model,
                   ollama_url, personality_config>>

\* ChatResponse(response=..., mode=..., model=..., timestamp=...): the body
\* POST /api/chat answers with, status 200.
ChatResponse(result) ==
    [response |-> result.response, mode |-> result.mode,
     model |-> result.model, timestamp |-> result.timestamp]

\* POST /api/chat with body {content: message}.
CallChat(i) ==
    /\ phase = "running" /\ reqs[i].pc = "idle"
    /\ \E message \in Messages :
          LET g == GenerateResponse(client, personality_config, model,
                                    runtime, message)
          IN  last' = Finished("chat", message, <<"generate_response">>,
                               g.calls, ChatResponse(g.result), g.raised)
    /\ UNCHANGED <<files, runtime, phase, startup, opened, client, model,
                   ollama_url, personality_config, reqs>>

Next ==
    \/ Construct
    \/ RuntimeChanges
    \/ \E i \in Slots : CallIsAvailable(i)
    \/ \E i \in Slots : CallGenerateResponse(i)
    \/ \E i \in Slots : CallGetStatus(i)
    \/ \E i \in Slots : GetStatusEnumerate(i)
    \/ \E i \in Slots : CallTestAi(i)
    \/ \E i \in Slots : TestAiGenerate(i)
    \/ \E i \in Slots : CallChat(i)

Spec == Init /\ [][Next]_vars

\* The loader on every disk: construction alone, from every filling of the
\* three candidate paths.
LoaderInit == InitOn(AllFiles)

LoaderNext == Construct

LoaderSpec == LoaderInit /\ [][LoaderNext]_vars

(***************************************************************************)
(* Properties.  last is the request that finished last, so a state         *)
(* predicate on last speaks of every request as it returns.                *)
(***************************************************************************)

\* The name the loaded configuration gives: identity.name, and the default
\* of the echo path when the configuration has none.
ConfiguredName ==
    IF "identity" \in DOMAIN personality_config
       /\ "name" \in DOMAIN personality_config.identity
    THEN personality_config.identity.name
    ELSE NameAssistant

\* The finished request invoked generate_response.
GenInvoked ==
    \E k \in 1..Len(last.invoked) : last.invoked[k] = "generate_response"

\* What generate_response returned in the finished request.
GenResult ==
    IF last.op = "test_ai" THEN last.result.test_response ELSE last.result

\* The chat-completion calls the finished request issued.
ChatCalls == SelectSeq(last.calls, LAMBDA c : c.kind = "chat")

\* The finished request began with is_available, and what that returned.
ProbeInvoked ==
    Len(last.invoked) >= 1 /\ last.invoked[1] = "is_available"

ProbeResult ==
    IF last.op = "is_available" THEN last.result.ret
    ELSE IF last.op = "test_ai" /\ GenInvoked THEN TRUE
    ELSE last.result.ai_available

C2_ModeAndResponse ==
    GenInvoked
    => /\ ~last.raised
       /\ GenResult.mode \in {"ai", "echo"}
       /\ GenResult.response # <<>>

\* C2's case: the runtime answered the chat for the empty text with empty
\* content, and the caller got a response all the same.
C2_Witness ==
    /\ last.op = "generate_response" /\ last.msg = <<>>
    /\ Len(ChatCalls) = 1 /\ ~ChatCalls[1].reply.exc
    /\ "message" \in DOMAIN ChatCalls[1].reply.val
    /\ ChatCalls[1].reply.val.message.content = <<>>
    /\ ~last.raised /\ last.result.response # <<>>

\* The mode get_status decided in a step of CallGetStatus(i): that of the
\* status it returned, or of the status it holds while it enumerates.
StatusModeAfter(i) ==
    IF reqs'[i].pc = "enumerate" THEN reqs'[i].result.mode
    ELSE last'.result.mode

\* C3 as stated: the mode depends only on whether the runtime answers during
\* the call, so a generate_response made while the runtime is up and
\* answering returns mode "ai", whatever the startup check did.
C3_Original ==
    [][\A i \in Slots :
          (CallGenerateResponse(i) /\ runtime = "up")
          => last'.result.mode = "ai"]_vars

\* C3 as amended: the mode depends only on the client handle, fixed at
\* construction, and on the runtime's answer during the same call.  With a
\* handle, generate_response returns "ai" exactly when the runtime answers
\* the chat with content, and get_status exactly when it answers the probe;
\* without one, both return "echo".  No earlier request is read.
C3_ModeFromHandleAndThisCall ==
    [][/\ \A i \in Slots :
             CallGenerateResponse(i)
             => (last'.result.mode = "ai" <=> (client /\ runtime = "up"))
       /\ \A i \in Slots :
             TestAiGenerate(i)
             => (last'.result.test_response.mode = "ai"
                 <=> (client /\ runtime = "up"))
       /\ \A i \in Slots :
             CallGetStatus(i)
             => (StatusModeAfter(i) = "ai"
                 <=> (client /\ runtime # "down"))
       /\ \A i \in Slots :
             GetStatusEnumerate(i)
             => last'.result.mode = reqs[i].result.mode]_vars

\* C3's case: under one handle, a generate_response whose chat call failed
\* was answered by echo, and a get_status in flight found the runtime
\* answering its probe.
C3_Witness ==
    /\ client /\ last.op = "generate_response" /\ last.result.mode = "echo"
    /\ Len(ChatCalls) = 1 /\ ChatCalls[1].reply.exc
    /\ \E i \in Slots : reqs[i].pc = "enumerate" /\ reqs[i].result.mode = "ai"

\* C4: no failure of the runtime, at the probe, the chat completion or the
\* model listing, makes is_available, generate_response or get_status raise.
C4_NeverRaises == ~last.raised

\* C4's case: get_status met a runtime that answered the probe and failed
\* the model listing, and returned a status.
C4_Witness ==
    /\ last.op = "get_status" /\ Len(last.calls) = 2
    /\ ~last.calls[1].reply.exc /\ last.calls[2].reply.exc
    /\ ~last.raised /\ "ai_available" \in DOMAIN last.result

\* C5: without a client handle is_available returns false and calls the
\* runtime not at all; with one, every is_available issues one probe of its
\* own and returns true exactly when that probe completes without error.
C5_LiveProbe ==
    ProbeInvoked
    => /\ ~last.raised
       /\ ~client => (last.calls = <<>> /\ ~ProbeResult)
       /\ client => /\ Len(last.calls) >= 1
                    /\ last.calls[1].kind = "list"
                    /\ ProbeResult <=> ~last.calls[1].reply.exc
       /\ last.op = "is_available" => Len(last.calls) <= 1

\* C5's case: a handle exists and the probe of this is_available failed.
C5_Witness ==
    /\ last.op = "is_available" /\ client
    /\ Len(last.calls) = 1 /\ last.calls[1].reply.exc
    /\ ~last.raised /\ ~last.result.ret

\* The model listing of a get_status that got that far succeeded: the call
\* returned and every model listed has a name.
EnumerationSucceeded ==
    /\ Len(last.calls) = 2
    /\ ~last.calls[2].reply.exc
    /\ ~ModelNames(last.calls[2].reply.val).exc

\* C6: available_models is present in a status only if ai_available is true
\* and the enumeration of that call succeeded; when the enumeration fails
\* after a successful probe the field is omitted and every other field is as
\* it is when the enumeration succeeds.
C6_AvailableModels ==
    last.op = "get_status"
    => /\ ~last.raised
       /\ "available_models" \in DOMAIN last.result
          => (last.result.ai_available /\ EnumerationSucceeded)
       /\ (Len(last.calls) = 2 /\ ~EnumerationSucceeded)
          => /\ DOMAIN last.result = {"ai_available", "model", "mode",
                                      "ollama_url", "personality"}
             /\ \A k \in DOMAIN last.result :
                   last.result[k]
                     = WithModels(StatusDict(TRUE, personality_config, model,
                                             ollama_url), <<>>)[k]

\* C6's case: the probe succeeded, the listing failed, and the status has no
\* available_models.
C6_Witness ==
    /\ last.op = "get_status" /\ Len(last.calls) = 2
    /\ ~last.calls[1].reply.exc /\ last.calls[2].reply.exc
    /\ ~last.raised /\ "available_models" \notin DOMAIN last.result

\* C7: construction always completes, whatever the startup check meets;
\* after it the handle is non-null exactly when the check returned HTTP 200
\* without an exception, and with a null handle every generate_response
\* answers in echo mode.
C7_ConstructionCompletes ==
    /\ phase # "crashed"
    /\ phase = "running" => (client <=> startup = "200")
    /\ (phase = "running" /\ ~client /\ GenInvoked)
       => (~last.raised /\ GenResult.mode = "echo")

\* C7's case: the startup check met a malformed response, the service runs
\* without a handle, and a generate_response was answered by echo.
C7_Witness ==
    /\ phase = "running" /\ startup = "malformed" /\ ~client
    /\ last.op = "generate_response" /\ last.result.mode = "echo"

\* The candidate paths that exist, and the first of them in search order.
Existing == {i \in 1..3 : files[i].state # "absent"}

FirstExisting == CHOOSE i \in Existing : \A j \in Existing : i <= j

\* C8: when the first candidate that exists does not parse, the loader
\* returns the built-in default and reads no later candidate, even one that
\* exists and is valid; the loader never raises.
C8_InvalidFirstGivesDefault ==
    /\ phase # "crashed"
    /\ (phase = "running" /\ Existing # {}
        /\ files[FirstExisting].state = "invalid")
       => /\ personality_config = GetDefaultPersonality
          /\ opened = <<FirstExisting>>

\* C8's case: the first path holds a file that does not parse, the second a
\* valid one, and the service holds the default.
C8_Witness ==
    /\ phase = "running"
    /\ files[1].state = "invalid" /\ files[2].state = "valid"
    /\ personality_config = GetDefaultPersonality

\* C9: the loader tries the three candidates in the order project root,
\* service root, current directory, and returns the parsed contents of the
\* first that exists when it parses, ignoring the later ones; when none
\* exists it returns the built-in default, whose identity.name is "Jarvis".
C9_FirstExistingWins ==
    /\ Candidates = <<"../../jarvis_personality.json",
                      "../jarvis_personality.json",
                      "jarvis_personality.json">>
    /\ phase = "running"
       => /\ (Existing # {} /\ files[FirstExisting].state = "valid")
             => /\ personality_config = Parsed(files[FirstExisting].json)
                /\ opened = <<FirstExisting>>
          /\ Existing = {}
             => /\ personality_config = GetDefaultPersonality
                /\ personality_config.identity.name = NameJarvis
                /\ opened = <<>>

\* C9's case: nothing at the first path, valid files at the second and the
\* third, and the service holds the contents of the second.
C9_Witness ==
    /\ phase = "running" /\ files[1].state = "absent"
    /\ files[2] = Valid("bare.json") /\ files[3] = Valid("friday.json")
    /\ personality_config = CfgBare /\ opened = <<2>>

\* C10: when GET /api/ai/test is called while the runtime is unavailable (no
\* handle, or the probe fails), the reply is exactly {ai_available: false,
\* test_successful: false, message: a non-empty text} and generate_response
\* is not invoked.
C10_TestWhenUnavailable ==
    (last.op = "test_ai"
     /\ (~client \/ (Len(last.calls) >= 1 /\ last.calls[1].reply.exc)))
    => /\ ~last.raised
       /\ DOMAIN last.result = {"ai_available", "test_successful", "message"}
       /\ last.result.ai_available = FALSE
       /\ last.result.test_successful = FALSE
       /\ last.result.message # <<>>
       /\ ~GenInvoked
       /\ ChatCalls = <<>>

\* C10's case: a handle exists, the probe of GET /api/ai/test failed, and the
\* caller got the message.
C10_Witness ==
    /\ last.op = "test_ai" /\ client
    /\ Len(last.calls) = 1 /\ last.calls[1].reply.exc
    /\ ~last.raised /\ last.result.message = TestMessage

\* The text sub occurs in the text t.
Contains(t, sub) ==
    \E k \in 0..(Len(t) - Len(sub)) : SubSeq(t, k + 1, k + Len(sub)) = sub

\* The text "Echo: " that test_chat_endpoint looks for in front of the
\* content.
EchoColon == <<"E", "c", "h", "o", ":", " ">>

\* C11: POST /api/chat with body {content: X} returns status 200 and a
\* response text that contains "Echo: X" (for X = "Hello", "Echo: Hello"),
\* together with a timestamp field.
C11_ChatContainsEcho ==
    last.op = "chat"
    => /\ ~last.raised
       /\ Contains(last.result.response, EchoColon \o last.msg)
       /\ "timestamp" \in DOMAIN last.result

\* The chat-completion call of the finished request returned content that
\* is not empty, without error.
ChatGaveContent ==
    /\ client
    /\ Len(ChatCalls) = 1
    /\ ~ChatCalls[1].reply.exc
    /\ "message" \in DOMAIN ChatCalls[1].reply.val
    /\ "content" \in DOMAIN ChatCalls[1].reply.val.message
    /\ ChatCalls[1].reply.val.message.content # <<>>

\* C12: a result of generate_response has mode "ai" exactly when the handle
\* exists and the chat-completion call of the same request returned
\* non-empty content without error; then response is that content and model
\* the configured model identifier.  Empty content or any error in the call
\* yields the echo result.
C12_AiExactlyOnContent ==
    GenInvoked
    => /\ ~last.raised
       /\ GenResult.mode = "ai" <=> ChatGaveContent
       /\ ChatGaveContent
          => /\ GenResult.response = ChatCalls[1].reply.val.message.content
             /\ GenResult.model = model
       /\ ~ChatGaveContent
          => /\ GenResult.mode = "echo"
             /\ GenResult.model = "fallback"
             /\ GenResult.response
                  = EchoFrom \o ConfiguredName \o ColonSpace \o last.msg

\* C12's case: the runtime answered the chat for "Hello" and the caller got
\* its text in ai mode.
C12_Witness ==
    /\ last.op = "generate_response" /\ last.msg = Hello
    /\ ~last.raised /\ last.result.mode = "ai"
    /\ last.result.response = Reply /\ last.result.model = DefaultModel

\* The finished request holds a result of generate_response with its
\* personality field (the body of POST /api/chat has none).
HasPersonality ==
    ~last.raised /\ GenInvoked /\ last.op \in {"generate_response", "test_ai"}

\* C13: for a fixed loaded configuration, also one without identity.name,
\* the personality field of the result of generate_response is the same name
\* whether the result is in ai mode or in echo mode: two results that follow
\* one another carry the same name.
C13_SamePersonality ==
    [][(HasPersonality /\ HasPersonality'
        /\ personality_config' = personality_config)
       => GenResult'.personality = GenResult.personality]_vars

\* C14: after construction no call of is_available, generate_response or
\* get_status, in any number and any interleaving of concurrent requests and
\* whatever the runtime does, changes the client handle, the model
\* identifier, the runtime endpoint or the personality configuration.
C14_ReadOnlyAfterConstruction ==
    [][phase = "running"
       => UNCHANGED <<client, model, ollama_url, personality_config>>]_vars

\* C14's case: a get_status and a GET /api/ai/test are suspended at the same
\* time, a generate_response has just met a failing chat call, the runtime is
\* down, and the handle and the configuration are those of construction.
C14_Witness ==
    /\ phase = "running" /\ client /\ runtime = "down"
    /\ \E i, j \in Slots :
          /\ i # j
          /\ reqs[i].pc = "enumerate" /\ reqs[j].pc = "generate"
    /\ last.op = "generate_response"
    /\ Len(ChatCalls) = 1 /\ ChatCalls[1].reply.exc
    /\ model = DefaultModel /\ ollama_url = DefaultUrl
    /\ personality_config = CfgFriday

\* The prompt expected of friday.json: the base, then the six clauses in order.
PromptFriday == <<"B", "e", " ", "F", ".", " ", "Y", "o", "u", "r", " ",
    "t", "o", "n", "e", " ", "s", "h", "o", "u", "l", "d", " ", "b", "e",
    " ", "d", "r", "y", ".", " ", "U", "s", "e", " ", "w", "i", "t", ".",
    " ", "B", "e", " ", "b", "o", "l", "d", ".", " ", "K", "e", "e", "p",
    " ", "r", "e", "s", "p", "o", "n", "s", "e", "s", " ", "s", "h", "o",
    "r", "t", ".", " ", "A", "p", "p", "r", "o", "a", "c", "h", " ", "p",
    "r", "o", "b", "l", "e", "m", "s", " ", "i", "n", " ", "a", "n", " ",
    "e", "x", "a", "c", "t", " ", "w", "a", "y", ".", " ", "W", "h", "e",
    "n", " ", "e", "x", "p", "l", "a", "i", "n", "i", "n", "g", " ", "c",
    "o", "m", "p", "l", "e", "x", " ", "t", "o", "p", "i", "c", "s", ",",
    " ", "s", "h", "o", "w", ".">>

\* The prompt expected of noname.json: the default sentence and the confidence
\* clause; the empty tone adds nothing.
PromptNoName == <<"Y", "o", "u", " ", "a", "r", "e", " ", "J", "a", "r",
    "v", "i", "s", ",", " ", "a", "n", " ", "A", "I", " ", "a", "s", "s",
    "i", "s", "t", "a", "n", "t", ".", " ", "B", "e", " ", "h", "e", "l",
    "p", "f", "u", "l", " ", "a", "n", "d", " ", "i", "n", "t", "e", "l",
    "l", "i", "g", "e", "n", "t", ".", " ", "B", "e", " ", "b", "o", "l",
    "d", ".">>

\* The prompt expected of each configuration the service can hold, written
\* out as text.
ExpectedPrompt ==
    CASE personality_config = CfgFriday -> PromptFriday
      [] personality_config = CfgNoName -> PromptNoName
      [] personality_config = CfgBare -> <<"B", "e", ".">>
      [] personality_config = GetDefaultPersonality -> BaseJarvis

\* C15: the system prompt is a function of the configuration alone:
\* personality.base_personality, or the default sentence when it is absent,
\* followed by one clause for each non-empty field in the order tone,
\* humor_level, confidence, response_style, problem_solving,
\* explanation_method; absent or empty fields add nothing, a configuration
\* with base_personality alone yields it verbatim, and every call yields the
\* same text.
C15_PromptFromConfig ==
    \A k \in 1..Len(ChatCalls) :
        ChatCalls[k].messages[1].content = ExpectedPrompt

\* C15's case: the service holds friday.json and sent a chat call whose
\* prompt has all six clauses.
C15_Witness ==
    /\ personality_config = CfgFriday
    /\ Len(ChatCalls) = 1
    /\ ChatCalls[1].messages[1].content = PromptFriday

\* C16: every chat-completion call issued by generate_response carries
\* exactly two messages in this order: a system message whose content is the
\* assembled system prompt, then a user message whose content is the
\* caller's message unchanged; at most one chat-completion call is issued
\* per generate_response (no retry), and none by any other operation.
C16_TwoMessagesOneCall ==
    /\ ~GenInvoked => ChatCalls = <<>>
    /\ GenInvoked
       => /\ Len(ChatCalls) <= 1
          /\ \A k \in 1..Len(ChatCalls) :
                /\ Len(ChatCalls[k].messages) = 2
                /\ ChatCalls[k].messages[1].role = "system"
                /\ ChatCalls[k].messages[1].content
                     = GetSystemPrompt(personality_config)
                /\ ChatCalls[k].messages[2].role = "user"
                /\ ChatCalls[k].messages[2].content = last.msg

\* C16's case: the one chat call for "Hello" came back without a message,
\* the caller got the echo, and no second call was made.
C16_Witness ==
    /\ last.op = "generate_response" /\ last.msg = Hello
    /\ Len(ChatCalls) = 1
    /\ ~ChatCalls[1].reply.exc
    /\ "message" \notin DOMAIN ChatCalls[1].reply.val
    /\ ChatCalls[1].messages[2].content = Hello
    /\ ~last.raised /\ last.result.mode = "echo"

\* C17: whenever GET /api/ai/test replies with test_successful true, the
\* embedded test_response, the result of generate_response on the canned
\* probe string, has mode "ai", also when the runtime fails between the
\* availability probe and the generation call.
C17_TestSuccessMeansAi ==
    (last.op = "test_ai" /\ ~last.raised /\ last.result.test_successful)
    => last.result.test_response.mode = "ai"

\* C18: in every result of get_status the three availability fields agree:
\* mode is "ai" exactly when ai_available is true, model is the configured
\* model identifier exactly when ai_available is true and "unavailable"
\* otherwise, and ai_available is the outcome of the single is_available
\* probe made at the start of the call.
C18_StatusFieldsAgree ==
    last.op = "get_status"
    => /\ ~last.raised
       /\ last.invoked = <<"is_available">>
       /\ last.result.ai_available
            <=> (client /\ Len(last.calls) >= 1
                 /\ last.calls[1].kind = "list"
                 /\ ~last.calls[1].reply.exc)
       /\ last.result.mode = "ai" <=> last.result.ai_available
       /\ last.result.mode \in {"ai", "echo"}
       /\ last.result.model = model <=> last.result.ai_available
       /\ ~last.result.ai_available => last.result.model = "unavailable"

\* C18's case: a handle exists, the probe of this get_status failed, and the
\* status says not available, "unavailable" and "echo".
C18_Witness ==
    /\ last.op = "get_status" /\ client
    /\ Len(last.calls) = 1 /\ last.calls[1].reply.exc
    /\ ~last.raised /\ ~last.result.ai_available
    /\ last.result.model = "unavailable" /\ last.result.mode = "echo"

====
